---- MODULE Spec2Model ----
(***************************************************************************)
(* Transport core of the rustafarian client (src/src/client.rs) with the   *)
(* chat adapter's controller commands (src/src/chat_client.rs).            *)
(*                                                                         *)
(* One action per input of the client loop: a controller command or an     *)
(* inbound packet is handled to completion in one step.  The client state  *)
(* is gathered in the record Cur; every handler is an operator from a      *)
(* client record to a client record, composed as the code composes its     *)
(* calls, and Commit writes the result back.                               *)
(*                                                                         *)
(* Abstractions: payload bytes are opaque (a message is its fragment       *)
(* count); session ids and flood ids drawn by rand::random are fresh       *)
(* numbers; the clock advances by half a flood interval and never steps    *)
(* back; HashMap/HashSet iteration follows ascending keys.                 *)
(***************************************************************************)
EXTENDS Integers, Sequences, FiniteSets, TLC

\* ------------------------------------------------------------------ bounds
MaxTicks == 4
\* clock advances of ClockStep after the start
MaxTime == 2
MaxFragments == 2
\* inputs waiting on one channel of the loop
MaxQueue == 2

\* --------------------------------------------------------------- constants
ClientId == 1
TIMEOUT_BETWEEN_FLOODS_MS == 500
StartTime == TIMEOUT_BETWEEN_FLOODS_MS
ClockStep == TIMEOUT_BETWEEN_FLOODS_MS \div 2
FRAGMENT_SIZE == 128

Drones == {2, 3}
Servers == {21, 22}
InitialSenders == {2, 3}
InSession == 11
StraySession == 99
ForeignFlood == 0

\* ----------------------------------------------------------------- helpers
EmptyMap == [x \in {} |-> {}]

Put(f, k, v) == [x \in DOMAIN f \cup {k} |-> IF x = k THEN v ELSE f[x]]

Drop(f, k) == [x \in DOMAIN f \ {k} |-> f[x]]

Get(f, k, default) == IF k \in DOMAIN f THEN f[k] ELSE default

MinOf(S) == CHOOSE x \in S : \A y \in S : x <= y

RECURSIVE Sorted(_)
Sorted(S) == IF S = {} THEN << >> ELSE LET m == MinOf(S) IN << m >> \o Sorted(S \ {m})

Reverse(s) == [i \in 1..Len(s) |-> s[Len(s) + 1 - i]]

SeqToSet(s) == {s[i] : i \in 1..Len(s)}

Count(s) == Cardinality({i \in 1..Len(s) : s[i]})

\* Vec::insert(index, element): shifts everything from index to the right
VecInsert(v, index, e) == SubSeq(v, 1, index) \o << e >> \o SubSeq(v, index + 1, Len(v))

\* ---------------------------------------------------------------- topology
\* A topology is [nodes, edges, types, history]: edges maps a node to its neighbour set
EmptyTopology == [nodes |-> {}, edges |-> EmptyMap, types |-> EmptyMap, history |-> EmptyMap]

add_node(t, n) ==
    [t EXCEPT !.nodes = @ \cup {n}, !.edges = Put(@, n, Get(@, n, {}))]

add_edge(t, from, to) ==
    LET e1 == Put(t.edges, from, Get(t.edges, from, {}) \cup {to})
        e2 == Put(e1, to, Get(e1, to, {}) \cup {from})
    IN [t EXCEPT !.edges = e2]

remove_node(t, n) ==
    [t EXCEPT !.nodes = @ \ {n},
              !.edges = [x \in DOMAIN @ \ {n} |-> @[x] \ {n}],
              !.types = Drop(@, n)]

remove_edges(t, a, b) ==
    [t EXCEPT !.edges = [x \in DOMAIN @ |->
        IF x = a THEN @[x] \ {b} ELSE IF x = b THEN @[x] \ {a} ELSE @[x]]]

set_node_type(t, n, ty) == [t EXCEPT !.types = Put(@, n, ty)]

neighbors(t, n) == Get(t.edges, n, {})

RECURSIVE PathTo(_, _, _)
PathTo(parent, source_id, node) ==
    IF node = source_id THEN << source_id >>
    ELSE PathTo(parent, source_id, parent[node]) \o << node >>

\* the loop of compute_route; neighbors() unwraps the entry of the node it is
\* asked about, so a dequeued node without an entry panics
RECURSIVE Bfs(_, _, _, _, _, _)
Bfs(t, source_id, destination_id, queue, visited, parent) ==
    IF queue = << >> THEN [hops |-> << >>, panicked |-> FALSE]
    ELSE LET current_node == Head(queue)
             fresh == Sorted(neighbors(t, current_node) \ visited)
             parent2 == [x \in DOMAIN parent \cup SeqToSet(fresh) |->
                            IF x \in DOMAIN parent THEN parent[x] ELSE current_node]
         IN IF current_node = destination_id
            THEN [hops |-> PathTo(parent, source_id, destination_id), panicked |-> FALSE]
            ELSE IF current_node \notin DOMAIN t.edges
            THEN [hops |-> << >>, panicked |-> TRUE]
            ELSE Bfs(t, source_id, destination_id, Tail(queue) \o fresh,
                     visited \cup SeqToSet(fresh), parent2)

compute_route(t, source_id, destination_id) ==
    Bfs(t, source_id, destination_id, << source_id >>, {source_id}, EmptyMap)

\* Topology::get_routing_header: the route, empty when there is none
get_routing_header(t, source_id, destination_id) ==
    [hops |-> compute_route(t, source_id, destination_id).hops, hop_index |-> 1]

\* update_node_history(route, dropped): one forwarded (and dropped) count per listed node
update_node_history(t, route, dropped) ==
    [t EXCEPT !.history = [x \in DOMAIN @ \cup SeqToSet(route) |->
        LET old == Get(@, x, [forwarded |-> 0, dropped |-> 0])
        IN IF x \in SeqToSet(route)
           THEN [forwarded |-> old.forwarded + 1,
                 dropped |-> old.dropped + (IF dropped THEN 1 ELSE 0)]
           ELSE old]]

\* ----------------------------------------------------------------- packets
Packet(type, session_id, hops, hop_index) ==
    [type |-> type, session_id |-> session_id, hops |-> hops, hop_index |-> hop_index,
     fragment_index |-> 0, total_n_fragments |-> 0,
     nack_type |-> [kind |-> "None", node |-> 0],
     flood_id |-> 0, initiator_id |-> 0, path_trace |-> << >>,
     length |-> 0, data |-> << >>]

Fragment(session_id, hops, fragment_index, total_n_fragments) ==
    [Packet("MsgFragment", session_id, hops, 1) EXCEPT
        !.fragment_index = fragment_index, !.total_n_fragments = total_n_fragments]

AckPacket(session_id, hops, fragment_index) ==
    [Packet("Ack", session_id, hops, 1) EXCEPT !.fragment_index = fragment_index]

NackPacket(session_id, hops, fragment_index, nack_type) ==
    [Packet("Nack", session_id, hops, 1) EXCEPT
        !.fragment_index = fragment_index, !.nack_type = nack_type]

\* what a packet is, whatever route it carries
Identity(p) == << p.type, p.session_id, p.fragment_index >>

\* ------------------------------------------------------------ client state
\* observation of the handler that ran last (reset by Begin)
NoLast ==
    [op |-> "none", session_id |-> 0, fragment_index |-> 0,
     nack_type |-> [kind |-> "None", node |-> 0],
     pending |-> FALSE, total |-> 0, resent |-> << >>, noroute |-> << >>,
     flood_attempted |-> FALSE, flood_allowed |-> FALSE, flood_permitted |-> FALSE,
     flood_ids_before |-> << >>, timestamp_before |-> 0, path_trace |-> << >>,
     repeated |-> FALSE, packets_ready |-> 0, received |-> << >>,
     media_requests |-> << >>, arrived |-> FALSE, source_id |-> 0,
     raw_content |-> << >>, undeserialized |-> FALSE, command |-> << >>,
     no_sender |-> << >>]

\* the chat adapter's own fields, and what the handler sent to the controller
NewChatAdapter ==
    [client |-> "chat",
     registered_servers |-> << >>,
     available_clients |-> EmptyMap,
     messages |-> << >>]

\* ChatClient::new
NewClient(senders) ==
    [topology |-> EmptyTopology,
     adapter |-> NewChatAdapter,
     senders |-> senders,
     sent_packets |-> EmptyMap,
     acked_packets |-> EmptyMap,
     packets_to_send |-> EmptyMap,
     sent_flood_ids |-> << >>,
     last_flood_timestamp |-> 0,
     received_fragments |-> EmptyMap,
     next_session |-> 1,
     panicked |-> FALSE,
     \* channel output of the current handler
     emitted |-> << >>,
     events |-> << >>,
     \* history of the run, kept for the properties
     opened |-> EmptyMap,
     frag_out |-> EmptyMap,
     acks_recv |-> EmptyMap,
     retired |-> {},
     frag_handled |-> EmptyMap,
     acks_out |-> EmptyMap,
     deferred |-> {},
     texts_sent |-> EmptyMap,
     flood_times |-> << >>,
     last |-> NoLast]

Emit(c, to, p) ==
    [c EXCEPT !.emitted = Append(@, [to |-> to, packet |-> p]),
              !.deferred = @ \ {Identity(p)},
              !.acks_out = IF p.type = "Ack"
                           THEN Put(@, << p.session_id, p.fragment_index >>,
                                    Get(@, << p.session_id, p.fragment_index >>, 0) + 1)
                           ELSE @,
              !.frag_out = IF p.type = "MsgFragment"
                           THEN Put(@, p.session_id, Get(@, p.session_id, {}) \cup {p.fragment_index})
                           ELSE @]

\* ------------------------------------------------------------- send_packet
send_packet(c, message, destination_id) ==
    IF c.panicked THEN c
    ELSE IF message.hops = << >>
    THEN [c EXCEPT !.packets_to_send = Put(@, destination_id, message),
                   !.deferred = @ \cup {Identity(message)},
                   !.last.noroute = Append(@, [to |-> destination_id, packet |-> message])]
    ELSE LET c1 == [c EXCEPT
                 !.topology = update_node_history(@, message.hops, FALSE),
                 !.sent_packets = Put(@, message.session_id,
                                      Append(Get(@, message.session_id, << >>), message)),
                 !.acked_packets =
                     IF message.type = "MsgFragment" /\ message.session_id \notin DOMAIN @
                     THEN Put(@, message.session_id,
                              [i \in 1..message.total_n_fragments |-> FALSE])
                     ELSE @]
         IN IF message.hop_index + 1 > Len(message.hops)
            THEN [c1 EXCEPT !.panicked = TRUE]
            ELSE LET drone_id == message.hops[message.hop_index + 1]
                 IN IF drone_id \in c1.senders
                    THEN Emit(c1, drone_id, message)
                    ELSE [c1 EXCEPT !.panicked = TRUE,
                                    !.last.no_sender = Append(@, drone_id)]

\* -------------------------------------------------------- send_flood_request
FloodRequest(flood_id, initiator_id, path_trace, session_id) ==
    [Packet("FloodRequest", session_id, << >>, 1) EXCEPT
        !.flood_id = flood_id, !.initiator_id = initiator_id, !.path_trace = path_trace]

RECURSIVE EmitAll(_, _, _)
EmitAll(c, tos, p) ==
    IF tos = << >> THEN c ELSE EmitAll(Emit(c, Head(tos), p), Tail(tos), p)

\* send_flood_request with the interval left out of the comparison
send_flood_request_no_interval(c, now) ==
    IF c.panicked THEN c
    ELSE IF c.last_flood_timestamp > now
    THEN [c EXCEPT !.last.flood_attempted = TRUE]
    ELSE LET flood_id == Len(c.sent_flood_ids) + 1
             c1 == [c EXCEPT !.last_flood_timestamp = now,
                             !.sent_flood_ids = Append(@, flood_id),
                             !.flood_times = Append(@, now),
                             !.last.flood_attempted = TRUE,
                             !.last.flood_allowed = TRUE]
             c2 == EmitAll(c1, Sorted(c1.senders),
                           FloodRequest(flood_id, ClientId, << << ClientId, "Client" >> >>, 0))
         IN [c2 EXCEPT !.events = Append(@, "FloodRequestSent")]

send_flood_request(c, now) ==
    IF c.panicked THEN c
    ELSE IF c.last_flood_timestamp + TIMEOUT_BETWEEN_FLOODS_MS > now
    THEN [c EXCEPT !.last.flood_attempted = TRUE]
    ELSE LET flood_id == Len(c.sent_flood_ids) + 1
             c1 == [c EXCEPT !.last_flood_timestamp = now,
                             !.sent_flood_ids = Append(@, flood_id),
                             !.flood_times = Append(@, now),
                             !.last.flood_attempted = TRUE,
                             !.last.flood_allowed = TRUE]
             c2 == EmitAll(c1, Sorted(c1.senders),
                           FloodRequest(flood_id, ClientId, << << ClientId, "Client" >> >>, 0))
         IN [c2 EXCEPT !.events = Append(@, "FloodRequestSent")]

\* ------------------------------------------------------------ send_message
RECURSIVE SendFragments(_, _, _, _, _)
SendFragments(c, destination_id, session_id, fragment_index, total) ==
    IF fragment_index >= total THEN c
    ELSE LET packet == Fragment(session_id,
                                get_routing_header(c.topology, ClientId, destination_id).hops,
                                fragment_index, total)
         IN SendFragments(send_packet(c, packet, destination_id),
                          destination_id, session_id, fragment_index + 1, total)

\* the message is `total` fragments long (Disassembler::disassemble_message)
send_message(c, destination_id, total) ==
    IF c.panicked THEN c
    ELSE LET session_id == c.next_session
             c1 == [c EXCEPT !.next_session = @ + 1,
                             !.opened = Put(@, session_id,
                                             [total |-> total, destination |-> destination_id])]
             c2 == SendFragments(c1, destination_id, session_id, 0, total)
         IN IF c2.panicked THEN c2
            ELSE [c2 EXCEPT !.events = Append(@, "MessageSent")]

\* a ServerType request is one fragment long
send_server_type_request(c, server_id) == send_message(c, server_id, 1)

send_ack(c, fragment_index, destination_id, session_id) ==
    send_packet(c, AckPacket(session_id,
                             get_routing_header(c.topology, ClientId, destination_id).hops,
                             fragment_index),
                destination_id)

\* ------------------------------------------------ fragmenter and reassembler
\* a fragment is [fragment_index, total_n_fragments, length, data]
Min(a, b) == IF a < b THEN a ELSE b

Zeros(n) == [i \in 1..n |-> 0]

\* Disassembler::disassemble_message: chunks of FRAGMENT_SIZE bytes, the last
\* one padded; one empty fragment for the empty message
disassemble_message(message) ==
    LET total == IF Len(message) = 0 THEN 1
                 ELSE (Len(message) + FRAGMENT_SIZE - 1) \div FRAGMENT_SIZE
    IN [k \in 1..total |->
          LET chunk == SubSeq(message, (k - 1) * FRAGMENT_SIZE + 1,
                              Min(k * FRAGMENT_SIZE, Len(message)))
          IN [fragment_index |-> k - 1,
              total_n_fragments |-> total,
              length |-> Len(chunk),
              data |-> chunk \o Zeros(FRAGMENT_SIZE - Len(chunk))]]

\* sort_by_key(|f| f.fragment_index): a stable sort
RECURSIVE InsertByIndex(_, _)
InsertByIndex(sorted, f) ==
    IF sorted = << >> THEN << f >>
    ELSE IF sorted[Len(sorted)].fragment_index <= f.fragment_index
    THEN Append(sorted, f)
    ELSE Append(InsertByIndex(SubSeq(sorted, 1, Len(sorted) - 1), f), sorted[Len(sorted)])

RECURSIVE SortByIndex(_)
SortByIndex(fragments) ==
    IF fragments = << >> THEN << >>
    ELSE InsertByIndex(SortByIndex(SubSeq(fragments, 1, Len(fragments) - 1)),
                       fragments[Len(fragments)])

RECURSIVE Concat(_)
Concat(fragments) ==
    IF fragments = << >> THEN << >>
    ELSE SubSeq(Head(fragments).data, 1, Head(fragments).length) \o Concat(Tail(fragments))

\* the fragments concatenated in arrival order
reassemble_message_unsorted(fragments) ==
    Concat(fragments)

reassemble_message(fragments) ==
    Concat(SortByIndex(fragments))

\* ------------------------------------------------------------- wire format
\* A message on the wire is a sequence of tokens, each standing for the bytes
\* of its text: the wrapper, the kind, then the arguments. A text is a
\* sequence of characters.
DigitValue ==
    ("0" :> 0) @@ ("1" :> 1) @@ ("2" :> 2) @@ ("3" :> 3) @@ ("4" :> 4) @@
    ("5" :> 5) @@ ("6" :> 6) @@ ("7" :> 7) @@ ("8" :> 8) @@ ("9" :> 9)

RECURSIVE DecimalValue(_)
DecimalValue(chars) ==
    IF chars = << >> THEN 0
    ELSE DecimalValue(SubSeq(chars, 1, Len(chars) - 1)) * 10 + DigitValue[chars[Len(chars)]]

\* str::parse::<u8>
ParseU8(chars) ==
    IF chars = << >> \/ \E i \in 1..Len(chars) : chars[i] \notin DOMAIN DigitValue
    THEN [ok |-> FALSE, value |-> 0]
    ELSE IF DecimalValue(chars) > 255
    THEN [ok |-> FALSE, value |-> 0]
    ELSE [ok |-> TRUE, value |-> DecimalValue(chars)]

\* str::split(sep)
RECURSIVE Split(_, _)
Split(chars, sep) ==
    IF \A i \in 1..Len(chars) : chars[i] # sep THEN << chars >>
    ELSE LET k == MinOf({i \in 1..Len(chars) : chars[i] = sep})
         IN << SubSeq(chars, 1, k - 1) >> \o Split(SubSeq(chars, k + 1, Len(chars)), sep)

StartsWith(chars, prefix) ==
    Len(chars) >= Len(prefix) /\ SubSeq(chars, 1, Len(prefix)) = prefix

\* a deserialized response, or the error of from_string
Response(wrapper, kind, id, body) ==
    [ok |-> TRUE, wrapper |-> wrapper, kind |-> kind, id |-> id, body |-> body]

NoResponse == [ok |-> FALSE, wrapper |-> "", kind |-> "", id |-> 0, body |-> << >>]

\* the numbers of a list of tokens, when each of them is a number
ParseList(tokens) ==
    IF \A i \in 1..Len(tokens) : ParseU8(<< tokens[i] >>).ok
    THEN [ok |-> TRUE, value |-> [i \in 1..Len(tokens) |-> ParseU8(<< tokens[i] >>).value]]
    ELSE [ok |-> FALSE, value |-> << >>]

\* ChatResponseWrapper::from_string
ChatResponseWrapper_from_string(raw_content) ==
    IF Len(raw_content) < 2 THEN NoResponse
    ELSE LET arguments == SubSeq(raw_content, 3, Len(raw_content))
         IN CASE raw_content[1] = "ServerType" ->
                    IF arguments = << >> /\ raw_content[2] \in {"Chat", "Text", "Media"}
                    THEN Response("ServerType", raw_content[2], 0, << >>)
                    ELSE NoResponse
              [] raw_content[1] = "Chat" /\ raw_content[2] \in {"MessageSent", "ClientRegistered"} ->
                    IF arguments = << >>
                    THEN Response("Chat", raw_content[2], 0, << >>)
                    ELSE NoResponse
              [] raw_content[1] = "Chat" /\ raw_content[2] = "ClientList" ->
                    IF ParseList(arguments).ok
                    THEN Response("Chat", "ClientList", 0, ParseList(arguments).value)
                    ELSE NoResponse
              [] raw_content[1] = "Chat" /\ raw_content[2] = "MessageFrom" ->
                    IF arguments # << >> /\ ParseU8(<< arguments[1] >>).ok
                    THEN Response("Chat", "MessageFrom", ParseU8(<< arguments[1] >>).value,
                                  Tail(arguments))
                    ELSE NoResponse
              [] OTHER -> NoResponse

\* BrowserResponseWrapper::from_string
BrowserResponseWrapper_from_string(raw_content) ==
    IF Len(raw_content) < 2 THEN NoResponse
    ELSE LET arguments == SubSeq(raw_content, 3, Len(raw_content))
         IN CASE raw_content[1] = "ServerType" ->
                    IF arguments = << >> /\ raw_content[2] \in {"Chat", "Text", "Media"}
                    THEN Response("ServerType", raw_content[2], 0, << >>)
                    ELSE NoResponse
              [] raw_content[1] = "Chat" /\ raw_content[2] = "FileList" ->
                    IF ParseList(arguments).ok
                    THEN Response("Chat", "FileList", 0, ParseList(arguments).value)
                    ELSE NoResponse
              [] raw_content[1] = "Chat" /\ raw_content[2] \in {"TextFile", "MediaFile"} ->
                    IF arguments # << >> /\ ParseU8(<< arguments[1] >>).ok
                    THEN Response("Chat", raw_content[2], ParseU8(<< arguments[1] >>).value,
                                  Tail(arguments))
                    ELSE NoResponse
              [] OTHER -> NoResponse

\* a message on the controller channel
Message(kind, server_id, file_id, content, attached) ==
    [kind |-> kind, server_id |-> server_id, file_id |-> file_id,
     content |-> content, attached |-> attached]

\* the texts sent with their references are counted for the properties
SendToController(c, message) ==
    [c EXCEPT !.adapter.messages = Append(@, message),
              !.texts_sent = IF message.kind = "TextWithReferences"
                             THEN Put(@, message.file_id, Get(@, message.file_id, 0) + 1)
                             ELSE @]

\* ------------------------------------------------------------ chat adapter
\* register / send_client_list_req: a request of one fragment
register(c, server_id) == send_message(c, server_id, 1)

send_client_list_req(c, server_id) == send_message(c, server_id, 1)

handle_chat_response(c, response, server_id) ==
    CASE response.kind = "ClientList" ->
            SendToController(
                [c EXCEPT !.adapter.available_clients = Put(@, server_id, response.body)],
                Message("ClientListResponse", server_id, 0, response.body, EmptyMap))
      [] response.kind = "MessageFrom" ->
            SendToController(c, Message("MessageReceived", server_id, response.id,
                                        response.body, EmptyMap))
      [] response.kind = "MessageSent" -> c
      [] response.kind = "ClientRegistered" ->
            [c EXCEPT !.adapter.registered_servers = Append(@, server_id)]

\* ChatClient::handle_response
handle_response(c, response, server_id) ==
    IF response.wrapper = "Chat" THEN handle_chat_response(c, response, server_id)
    ELSE SendToController(
            [c EXCEPT !.topology = set_node_type(@, server_id, response.kind),
                      !.adapter.available_clients =
                          IF response.kind = "Chat" THEN Put(@, server_id, << >>) ELSE @],
            Message("ServerTypeResponse", server_id, 0, << response.kind >>, EmptyMap))

\* --------------------------------------------------------- browser adapter
NewBrowserAdapter ==
    [client |-> "browser",
     available_text_files |-> EmptyMap,
     available_media_files |-> EmptyMap,
     obtained_text_files |-> EmptyMap,
     obtained_media_files |-> EmptyMap,
     available_servers |-> EmptyMap,
     pending_referenced_files |-> EmptyMap,
     references_files |-> EmptyMap,
     messages |-> << >>]

request_text_file(c, file_id, server_id) == send_message(c, server_id, 1)

\* the request is noted for the properties
request_media_file(c, file_id, server_id) ==
    send_message([c EXCEPT !.last.media_requests = Append(@, file_id)], server_id, 1)

request_file_list(c, server_id) == send_message(c, server_id, 1)

send_text_file_with_references(c, file_id, text) ==
    LET references == Get(c.adapter.references_files, file_id, {})
        attached_media_files ==
            [id \in references |-> Get(c.adapter.obtained_media_files, id, << >>)]
        c1 == [c EXCEPT !.adapter.pending_referenced_files = Drop(@, file_id),
                        !.adapter.references_files = Drop(@, file_id)]
    IN IF references = {} THEN c1
       ELSE SendToController(c1, Message("TextWithReferences", 0, file_id, text,
                                         attached_media_files))

\* the loop over the references of send_referenced_files_requests
RECURSIVE RequestReferences(_, _, _, _, _)
RequestReferences(c, file_id, server_id, references, has_pending_references) ==
    IF references = << >> \/ c.panicked
    THEN [state |-> c, has_pending_references |-> has_pending_references]
    ELSE LET reference == ParseU8(Head(references))
         IN IF ~reference.ok
            THEN RequestReferences(c, file_id, server_id, Tail(references),
                                   has_pending_references)
            ELSE LET c1 == [c EXCEPT !.adapter.references_files =
                               Put(@, file_id, Get(@, file_id, {}) \cup {reference.value})]
                 IN IF reference.value \in DOMAIN c1.adapter.obtained_media_files
                    THEN RequestReferences(c1, file_id, server_id, Tail(references),
                                           has_pending_references)
                    ELSE RequestReferences(
                            request_media_file(
                                [c1 EXCEPT !.adapter.pending_referenced_files =
                                    IF file_id \in DOMAIN @
                                    THEN Put(@, file_id, @[file_id] \cup {reference.value})
                                    ELSE @],
                                reference.value, server_id),
                            file_id, server_id, Tail(references), TRUE)

send_referenced_files_requests(c, text, file_id) ==
    IF text = << >> THEN c
    ELSE LET first_line == Split(text, "\n")[1]
             media_servers == {s \in DOMAIN c.adapter.available_servers :
                                  c.adapter.available_servers[s] = "Media"}
         IN IF ~StartsWith(first_line, << "r", "e", "f", "=" >>)
            THEN SendToController(c, Message("TextFileResponse", 0, file_id, text, EmptyMap))
            ELSE IF media_servers = {} THEN c
            ELSE LET references == Split(Split(first_line, "=")[2], ",")
                     c1 == [c EXCEPT !.adapter.pending_referenced_files = Put(@, file_id, {})]
                     requested == RequestReferences(c1, file_id, MinOf(media_servers),
                                                    references, FALSE)
                 IN IF requested.state.panicked \/ requested.has_pending_references
                    THEN requested.state
                    ELSE send_text_file_with_references(requested.state, file_id, text)

\* the texts that completed are sent, each with the first text of its file id
RECURSIVE SendCompleted(_, _)
SendCompleted(c, completed_text_files) ==
    IF completed_text_files = << >> THEN c
    ELSE LET file_id == Head(completed_text_files)
             keys == {k \in DOMAIN c.adapter.obtained_text_files :
                         k[2] = file_id /\ k # << 0, 0 >>}
             chosen == CHOOSE k \in keys : \A other \in keys : k[1] <= other[1]
         IN IF keys = {} THEN SendCompleted(c, Tail(completed_text_files))
            ELSE SendCompleted(
                    send_text_file_with_references(c, file_id,
                                                   c.adapter.obtained_text_files[chosen]),
                    Tail(completed_text_files))

\* returns the client and whether the media was a reference of a waiting text
check_referenced_media_received(c, media_file_id) ==
    LET pending == c.adapter.pending_referenced_files
        waiting == {f \in DOMAIN pending : media_file_id \in pending[f]}
        left == [f \in DOMAIN pending |-> pending[f] \ {media_file_id}]
        completed_text_files == Sorted({f \in waiting : left[f] = {}})
    IN [state |-> SendCompleted([c EXCEPT !.adapter.pending_referenced_files = left],
                                completed_text_files),
        is_reference |-> waiting # {}]

handle_browser_response(c, response, server_id) ==
    CASE response.kind = "FileList" ->
            LET server_type == Get(c.adapter.available_servers, server_id, "None")
            IN SendToController(
                  [c EXCEPT !.adapter.available_text_files =
                                IF server_type = "Text" THEN Put(@, server_id, response.body)
                                ELSE @,
                            !.adapter.available_media_files =
                                IF server_type = "Media" THEN Put(@, server_id, response.body)
                                ELSE @],
                  Message("FileListResponse", server_id, 0, response.body, EmptyMap))
      [] response.kind = "TextFile" ->
            send_referenced_files_requests(
                [c EXCEPT !.adapter.obtained_text_files =
                    Put(@, << server_id, response.id >>, response.body)],
                response.body, response.id)
      [] response.kind = "MediaFile" ->
            LET checked == check_referenced_media_received(
                              [c EXCEPT !.adapter.obtained_media_files =
                                  Put(@, response.id, response.body)],
                              response.id)
            IN IF checked.is_reference THEN checked.state
               ELSE SendToController(checked.state,
                        Message("MediaFileResponse", 0, response.id, response.body, EmptyMap))

\* BrowserClient::handle_response
BrowserClient_handle_response(c, response, server_id) ==
    IF response.wrapper = "Chat" THEN handle_browser_response(c, response, server_id)
    ELSE SendToController(
            [c EXCEPT !.topology = set_node_type(@, server_id, response.kind),
                      !.adapter.available_servers =
                          IF response.kind \in {"Text", "Media"}
                          THEN Put(@, server_id, response.kind) ELSE @,
                      !.adapter.available_text_files =
                          IF response.kind = "Text" THEN Put(@, server_id, << >>) ELSE @,
                      !.adapter.available_media_files =
                          IF response.kind = "Media" THEN Put(@, server_id, << >>) ELSE @],
            Message("ServerTypeResponse", server_id, 0, << response.kind >>, EmptyMap))

\* ----------------------------------------------------- on_fragment_received
\* compose_message: the content deserialized into the client's response type
compose_message(c, source_id, session_id, raw_content) ==
    LET content == IF c.adapter.client = "chat"
                   THEN ChatResponseWrapper_from_string(raw_content)
                   ELSE BrowserResponseWrapper_from_string(raw_content)
    IN [ok |-> content.ok, session_id |-> session_id, source_id |-> source_id,
        content |-> content]

\* an error of compose_message taken as fatal
on_text_response_arrived_fatal(c, source_id, session_id, raw_content) ==
    LET message == compose_message(c, source_id, session_id, raw_content)
        c1 == [c EXCEPT !.last.arrived = TRUE,
                        !.last.source_id = source_id,
                        !.last.raw_content = raw_content,
                        !.last.undeserialized = ~message.ok]
    IN IF ~message.ok THEN [c1 EXCEPT !.panicked = TRUE]
       ELSE IF c.adapter.client = "chat"
       THEN handle_response(c1, message.content, message.source_id)
       ELSE BrowserClient_handle_response(c1, message.content, message.source_id)

\* the message is noted for the properties; an error of compose_message is
\* logged and nothing else is done
on_text_response_arrived(c, source_id, session_id, raw_content) ==
    LET message == compose_message(c, source_id, session_id, raw_content)
        c1 == [c EXCEPT !.last.arrived = TRUE,
                        !.last.source_id = source_id,
                        !.last.raw_content = raw_content,
                        !.last.undeserialized = ~message.ok]
    IN IF ~message.ok THEN c1
       ELSE IF c.adapter.client = "chat"
       THEN handle_response(c1, message.content, message.source_id)
       ELSE BrowserClient_handle_response(c1, message.content, message.source_id)

\* add_fragment: complete when the fragment completes its session, with the
\* reassembled message
add_fragment(c, fragment, session_id) ==
    LET fragments == Append(Get(c.received_fragments, session_id, << >>), fragment)
        complete == Len(fragments) = fragments[1].total_n_fragments
    IN [state |-> [c EXCEPT !.received_fragments =
                       IF complete THEN Drop(@, session_id) ELSE Put(@, session_id, fragments)],
        complete |-> complete,
        message |-> IF complete THEN reassemble_message(fragments) ELSE << >>]

on_fragment_received(c, packet) ==
    LET source_id == packet.hops[1]
        added == add_fragment(c, [fragment_index |-> packet.fragment_index,
                                  total_n_fragments |-> packet.total_n_fragments,
                                  length |-> packet.length, data |-> packet.data],
                              packet.session_id)
        c1 == IF added.complete
              THEN on_text_response_arrived(added.state, source_id, packet.session_id,
                                            added.message)
              ELSE added.state
        key == << packet.session_id, packet.fragment_index >>
        c2 == [c1 EXCEPT !.frag_handled = Put(@, key, Get(@, key, 0) + 1)]
    IN send_ack(c2, packet.fragment_index, source_id, packet.session_id)

\* ---------------------------------------------------------- on_ack_received
on_ack_received(c, packet) ==
    LET s == packet.session_id
        index == packet.fragment_index
        old == Get(c.acked_packets, s, << >>)
    IN IF index > Len(old)
       THEN [c EXCEPT !.acked_packets = Put(@, s, old), !.panicked = TRUE]
       ELSE LET c1 == [c EXCEPT
                    !.acked_packets = Put(@, s, VecInsert(old, index, TRUE)),
                    !.acks_recv = IF s \in DOMAIN c.sent_packets
                                  THEN Put(@, s, Get(@, s, {}) \cup {index}) ELSE @]
                acked_packet_count == Count(c1.acked_packets[s])
            IN IF s \notin DOMAIN c1.sent_packets THEN c1
               ELSE IF acked_packet_count >= Len(c1.sent_packets[s])
               THEN [c1 EXCEPT !.sent_packets = Drop(@, s),
                               !.acked_packets = Drop(@, s),
                               !.retired = @ \cup {s}]
               ELSE c1

\* --------------------------------------------------------- on_nack_received
Resend(c, packet) ==
    LET s == packet.session_id
        index == packet.fragment_index
    IN IF c.panicked \/ s \notin DOMAIN c.sent_packets THEN c
       ELSE LET sent == c.sent_packets[s]
            IN IF Len(sent) < index \/ index + 1 > Len(sent) THEN c
               ELSE LET lost_packet == sent[index + 1]
                        destination_id == Reverse(lost_packet.hops)[1]
                        routed == [lost_packet EXCEPT
                            !.hops = get_routing_header(c.topology, ClientId, destination_id).hops,
                            !.hop_index = 1]
                        c1 == send_packet(c, routed, destination_id)
                    IN [c1 EXCEPT !.last.resent =
                           Append(@, [to |-> destination_id, packet |-> routed,
                                      emitted |-> Len(c1.emitted) > Len(c.emitted)])]

\* on_nack_received re-sending before the crashed node is removed
on_nack_received_resend_first(c, packet, now) ==
    LET c1 == IF packet.nack_type.kind = "Dropped"
              THEN [c EXCEPT !.topology =
                       update_node_history(@, << Reverse(packet.hops)[1] >>, TRUE)]
              ELSE send_flood_request(c, now)
        c2 == Resend(c1, packet)
    IN IF packet.nack_type.kind = "ErrorInRouting"
       THEN [c2 EXCEPT !.topology = remove_node(@, packet.nack_type.node)]
       ELSE c2

\* on_nack_received starting its flood after the fragment went out again
on_nack_received_flood_last(c, packet, now) ==
    LET c1 == IF packet.nack_type.kind = "ErrorInRouting"
              THEN [c EXCEPT !.topology = remove_node(@, packet.nack_type.node)]
              ELSE c
        c2 == Resend(c1, packet)
    IN IF packet.nack_type.kind = "Dropped"
       THEN [c2 EXCEPT !.topology =
                update_node_history(@, << Reverse(packet.hops)[1] >>, TRUE)]
       ELSE send_flood_request(c2, now)

on_nack_received(c, packet, now) ==
    LET c1 == IF packet.nack_type.kind = "Dropped"
              THEN [c EXCEPT !.topology =
                       update_node_history(@, << Reverse(packet.hops)[1] >>, TRUE)]
              ELSE send_flood_request(c, now)
        c2 == IF packet.nack_type.kind = "ErrorInRouting"
              THEN [c1 EXCEPT !.topology = remove_node(@, packet.nack_type.node)]
              ELSE c1
    IN Resend(c2, packet)

\* ----------------------------------------------- on_flood_response_received
\* the edge is added only to a node the topology knew before this entry
RECURSIVE IngestTrace_known_nodes_only(_, _, _)
IngestTrace_known_nodes_only(c, path_trace, i) ==
    IF i > Len(path_trace) \/ c.panicked THEN c
    ELSE LET id == path_trace[i][1]
             kind == path_trace[i][2]
             t0 == c.topology
             t1 == IF id \notin t0.nodes
                   THEN LET added == add_node(t0, id)
                        IN IF kind = "Drone" THEN set_node_type(added, id, "drone")
                           ELSE IF kind = "Client" THEN set_node_type(added, id, "client")
                           ELSE added
                   ELSE t0
             previous == IF i > 1 THEN path_trace[i - 1][1] ELSE id
             known_edge == i > 1 /\ previous \in neighbors(t1, id)
             t2 == IF i > 1 /\ ~known_edge /\ id \in t0.nodes
                   THEN add_edge(add_edge(t1, previous, id), id, previous)
                   ELSE t1
         IN IF known_edge
            THEN IngestTrace_known_nodes_only([c EXCEPT !.topology = t1], path_trace, i + 1)
            ELSE IF kind = "Server" /\ id \notin DOMAIN t2.types
            THEN IngestTrace_known_nodes_only(
                    send_server_type_request(
                        [c EXCEPT !.topology = set_node_type(t2, id, "server")], id),
                    path_trace, i + 1)
            ELSE IngestTrace_known_nodes_only([c EXCEPT !.topology = t2], path_trace, i + 1)

RECURSIVE IngestTrace(_, _, _)
IngestTrace(c, path_trace, i) ==
    IF i > Len(path_trace) \/ c.panicked THEN c
    ELSE LET id == path_trace[i][1]
             kind == path_trace[i][2]
             t0 == c.topology
             t1 == IF id \notin t0.nodes
                   THEN LET added == add_node(t0, id)
                        IN IF kind = "Drone" THEN set_node_type(added, id, "drone")
                           ELSE IF kind = "Client" THEN set_node_type(added, id, "client")
                           ELSE added
                   ELSE t0
             previous == IF i > 1 THEN path_trace[i - 1][1] ELSE id
             known_edge == i > 1 /\ previous \in neighbors(t1, id)
             t2 == IF i > 1 /\ ~known_edge
                   THEN add_edge(add_edge(t1, previous, id), id, previous)
                   ELSE t1
         IN IF known_edge
            THEN IngestTrace([c EXCEPT !.topology = t1], path_trace, i + 1)
            ELSE IF kind = "Server" /\ id \notin DOMAIN t2.types
            THEN IngestTrace(
                    send_server_type_request(
                        [c EXCEPT !.topology = set_node_type(t2, id, "server")], id),
                    path_trace, i + 1)
            ELSE IngestTrace([c EXCEPT !.topology = t2], path_trace, i + 1)

RECURSIVE Drain(_, _, _)
Drain(c, queue, destinations) ==
    IF destinations = << >> THEN c
    ELSE LET destination_id == Head(destinations)
             new_packet == [queue[destination_id] EXCEPT
                 !.hops = get_routing_header(c.topology, ClientId, destination_id).hops,
                 !.hop_index = 1]
         IN Drain(send_packet(c, new_packet, destination_id), queue, Tail(destinations))

on_flood_response_received(c, flood_id, path_trace) ==
    LET c1 == IngestTrace(c, path_trace, 1)
        c2 == IF c1.panicked THEN c1
              ELSE [c1 EXCEPT !.events = Append(@, "FloodResponse"),
                              !.packets_to_send = EmptyMap]
    IN IF c2.panicked THEN c2
       ELSE Drain(c2, c1.packets_to_send, Sorted(DOMAIN c1.packets_to_send))

\* the FloodResponse arm forwarding on a route computed from the topology
HandleFloodResponse_rerouted(c, packet) ==
    LET c1 == on_flood_response_received(c, packet.flood_id, packet.path_trace)
    IN IF c1.panicked \/ packet.flood_id \in SeqToSet(c1.sent_flood_ids) THEN c1
       ELSE IF packet.hops = << >> THEN [c1 EXCEPT !.panicked = TRUE]
       ELSE send_packet(c1,
               [packet EXCEPT
                   !.hops = get_routing_header(c1.topology, ClientId,
                                               Reverse(packet.hops)[1]).hops,
                   !.hop_index = 1],
               Reverse(packet.hops)[1])

\* the FloodResponse arm of on_drone_packet_received
HandleFloodResponse(c, packet) ==
    LET c1 == on_flood_response_received(c, packet.flood_id, packet.path_trace)
    IN IF c1.panicked \/ packet.flood_id \in SeqToSet(c1.sent_flood_ids) THEN c1
       ELSE IF packet.hops = << >> THEN [c1 EXCEPT !.panicked = TRUE]
       ELSE send_packet(c1, [packet EXCEPT !.hop_index = @ + 1], Reverse(packet.hops)[1])

\* ------------------------------------------------ on_flood_request_received
on_flood_request_received(c, packet) ==
    IF packet.path_trace = << >> THEN c
    ELSE LET sender_id == packet.path_trace[Len(packet.path_trace)][1]
             trace == Append(packet.path_trace, << ClientId, "Client" >>)
         IN IF Cardinality(c.senders) = 1
            THEN IF sender_id \in c.senders
                 THEN Emit(c, sender_id,
                           [Packet("FloodResponse", packet.session_id,
                                   Reverse([i \in 1..Len(trace) |-> trace[i][1]]), 1)
                            EXCEPT !.flood_id = packet.flood_id, !.path_trace = trace])
                 ELSE [c EXCEPT !.panicked = TRUE]
            ELSE EmitAll(c, Sorted(c.senders \ {sender_id}),
                         FloodRequest(packet.flood_id, packet.initiator_id, trace,
                                      packet.session_id))

\* ------------------------------------------------------ controller commands
\* SimControllerCommand::SendMessage / Register / ClientList: one send_message
CommandSendMessage(c, server_id, total) ==
    LET c1 == send_message(c, server_id, total)
    IN IF c1.panicked THEN c1 ELSE [c1 EXCEPT !.events = Append(@, "ChatMessageSent")]

CommandAddSender(c, sender_id, now) ==
    send_flood_request(
        [c EXCEPT !.senders = @ \cup {sender_id},
                  !.topology = add_edge(add_node(@, sender_id), ClientId, sender_id)],
        now)

CommandRemoveSender(c, sender_id) ==
    [c EXCEPT !.senders = @ \ {sender_id},
              !.topology = remove_edges(@, ClientId, sender_id)]

\* ---------------------------------------------------------------------- run
\* the startup insertion without the add_node of the neighbour
RECURSIVE AddNeighbors_edge_only(_, _)
AddNeighbors_edge_only(t, senders) ==
    IF senders = << >> THEN t
    ELSE AddNeighbors_edge_only(
            add_edge(set_node_type(t, Head(senders), "drone"), ClientId, Head(senders)),
            Tail(senders))

RECURSIVE AddNeighbors(_, _)
AddNeighbors(t, senders) ==
    IF senders = << >> THEN t
    ELSE AddNeighbors(
            add_edge(set_node_type(add_node(t, Head(senders)), Head(senders), "drone"),
                     ClientId, Head(senders)),
            Tail(senders))

\* run(), up to the loop
Startup(c, now) ==
    send_flood_request(
        [c EXCEPT !.topology = IF DOMAIN @.edges = {}
                               THEN AddNeighbors(@, Sorted(c.senders)) ELSE @],
        now)

\* ------------------------------------------------------------------- state
VARIABLES
    topology, senders, sent_packets, acked_packets, packets_to_send,
    sent_flood_ids, last_flood_timestamp, received_fragments, next_session,
    panicked, emitted, events, hist, phase, ticks, now,
    \* the reassembler fed on its own: message, indexes fed, messages returned
    payload, fed, delivered,
    \* the two channels of the loop: commands and packets waiting to be selected
    inbox,
    \* the adapter's own state and its messages to the controller
    adapter

feed_vars == << payload, fed, delivered, inbox >>

client_vars == << topology, senders, sent_packets, acked_packets, packets_to_send,
                  sent_flood_ids, last_flood_timestamp, received_fragments, next_session,
                  panicked, emitted, events, hist, adapter >>

vars == << topology, senders, sent_packets, acked_packets, packets_to_send,
           sent_flood_ids, last_flood_timestamp, received_fragments, next_session,
           panicked, emitted, events, hist, phase, ticks, now,
           payload, fed, delivered, inbox, adapter >>

Cur ==
    [topology |-> topology, adapter |-> adapter,
     senders |-> senders, sent_packets |-> sent_packets,
     acked_packets |-> acked_packets, packets_to_send |-> packets_to_send,
     sent_flood_ids |-> sent_flood_ids, last_flood_timestamp |-> last_flood_timestamp,
     received_fragments |-> received_fragments, next_session |-> next_session,
     panicked |-> panicked, emitted |-> emitted, events |-> events,
     opened |-> hist.opened, frag_out |-> hist.frag_out, acks_recv |-> hist.acks_recv,
     retired |-> hist.retired, frag_handled |-> hist.frag_handled,
     acks_out |-> hist.acks_out, deferred |-> hist.deferred,
     texts_sent |-> hist.texts_sent,
     flood_times |-> hist.flood_times, last |-> hist.last]

Commit(c) ==
    /\ topology' = c.topology
    /\ adapter' = c.adapter
    /\ senders' = c.senders
    /\ sent_packets' = c.sent_packets
    /\ acked_packets' = c.acked_packets
    /\ packets_to_send' = c.packets_to_send
    /\ sent_flood_ids' = c.sent_flood_ids
    /\ last_flood_timestamp' = c.last_flood_timestamp
    /\ received_fragments' = c.received_fragments
    /\ next_session' = c.next_session
    /\ panicked' = c.panicked
    /\ emitted' = c.emitted
    /\ events' = c.events
    /\ hist' = [opened |-> c.opened, frag_out |-> c.frag_out, acks_recv |-> c.acks_recv,
                retired |-> c.retired, frag_handled |-> c.frag_handled,
                acks_out |-> c.acks_out, deferred |-> c.deferred,
                texts_sent |-> c.texts_sent,
                flood_times |-> c.flood_times, last |-> c.last]

InitClient == NewClient(InitialSenders)

InitState ==
    /\ topology = InitClient.topology
    /\ senders = InitClient.senders
    /\ sent_packets = InitClient.sent_packets
    /\ acked_packets = InitClient.acked_packets
    /\ packets_to_send = InitClient.packets_to_send
    /\ sent_flood_ids = InitClient.sent_flood_ids
    /\ last_flood_timestamp = InitClient.last_flood_timestamp
    /\ received_fragments = InitClient.received_fragments
    /\ next_session = InitClient.next_session
    /\ panicked = InitClient.panicked
    /\ emitted = InitClient.emitted
    /\ events = InitClient.events
    /\ hist = [opened |-> InitClient.opened, frag_out |-> InitClient.frag_out,
               acks_recv |-> InitClient.acks_recv, retired |-> InitClient.retired,
               frag_handled |-> InitClient.frag_handled, acks_out |-> InitClient.acks_out,
               deferred |-> InitClient.deferred, texts_sent |-> InitClient.texts_sent,
               flood_times |-> InitClient.flood_times,
               last |-> InitClient.last]
    /\ phase = "new"
    /\ ticks = MaxTicks
    /\ now = StartTime

Init ==
    /\ InitState
    /\ adapter = InitClient.adapter
    /\ payload = << >>
    /\ fed = << >>
    /\ delivered = << >>
    /\ inbox = [commands |-> << >>, packets |-> << >>, closed |-> {}]

\* a handler starts: fresh channel output, fresh observation
Begin(c, op) ==
    [c EXCEPT !.emitted = << >>, !.events = << >>, !.adapter.messages = << >>,
              !.last = [NoLast EXCEPT
                  !.op = op,
                  !.flood_permitted =
                      c.last_flood_timestamp + TIMEOUT_BETWEEN_FLOODS_MS <= now,
                  !.flood_ids_before = c.sent_flood_ids,
                  !.timestamp_before = c.last_flood_timestamp]]

\* one iteration of the loop of run(): the handler runs, then ticks -= 1
Handle(c) ==
    /\ Commit(c)
    /\ ticks' = ticks - 1
    /\ UNCHANGED << phase, now, feed_vars >>

\* the loop without its test of ticks
Ready_any_ticks ==
    phase = "running" /\ ~panicked

\* while ticks > 0, in a client that runs
Ready ==
    phase = "running" /\ ticks > 0 /\ ~panicked

\* ----------------------------------------------------------------- actions
Run ==
    /\ phase = "new"
    /\ Commit(Startup(Begin(Cur, "Run"), now))
    /\ phase' = "running"
    /\ UNCHANGED << ticks, now, feed_vars >>

Stop ==
    /\ phase = "running" /\ ticks = 0 /\ ~panicked
    /\ phase' = "stopped"
    /\ UNCHANGED << client_vars, ticks, now, feed_vars >>

\* the clock advances between two readings
Tick ==
    /\ now + ClockStep <= StartTime + MaxTime * ClockStep
    /\ now' = now + ClockStep
    /\ UNCHANGED << client_vars, phase, ticks, feed_vars >>

CmdSendMessage ==
    /\ Ready
    /\ \E server_id \in Servers, total \in 1..MaxFragments :
          Handle(CommandSendMessage(Begin(Cur, "SendMessage"), server_id, total))

CmdFloodRequest ==
    /\ Ready
    /\ Handle(send_flood_request(Begin(Cur, "FloodRequest"), now))

CmdAddSender ==
    /\ Ready
    /\ \E sender_id \in Drones :
          Handle(CommandAddSender(Begin(Cur, "AddSender"), sender_id, now))

CmdRemoveSender ==
    /\ Ready
    /\ \E sender_id \in senders :
          Handle(CommandRemoveSender(Begin(Cur, "RemoveSender"), sender_id))

\* a server sends a two-fragment response through drone 2
RecvFragment ==
    /\ Ready
    /\ \E fragment_index \in 0..1 :
          Handle(on_fragment_received(Begin(Cur, "MsgFragment"),
                    Fragment(InSession, << 21, 2, ClientId >>, fragment_index, 2)))

Observe(c, op, session_id, fragment_index, nack_type) ==
    LET b == Begin(c, op)
    IN [b EXCEPT !.last.session_id = session_id,
                 !.last.fragment_index = fragment_index,
                 !.last.nack_type = nack_type,
                 !.last.pending = session_id \in DOMAIN c.sent_packets,
                 !.last.total = IF session_id \in DOMAIN c.opened
                                THEN c.opened[session_id].total ELSE 0]

\* the network acknowledges a fragment this client emitted (possibly again)
RecvAck ==
    /\ Ready
    /\ \E session_id \in DOMAIN hist.frag_out :
       \E fragment_index \in hist.frag_out[session_id] :
          Handle(on_ack_received(
                    Observe(Cur, "Ack", session_id, fragment_index, [kind |-> "None", node |-> 0]),
                    AckPacket(session_id, << 21, 2, ClientId >>, fragment_index)))

NackTypes ==
    {[kind |-> "Dropped", node |-> 0], [kind |-> "DestinationIsDrone", node |-> 0]}
    \cup {[kind |-> "ErrorInRouting", node |-> n] : n \in Drones}

\* the routing header of a Nack: from the drone that made it to this client
NackRoute == << 2, ClientId >>

\* a drone refuses a fragment this client emitted
RecvNack ==
    /\ Ready
    /\ \E session_id \in DOMAIN hist.frag_out :
       \E fragment_index \in hist.frag_out[session_id] :
       \E nack_type \in NackTypes :
          Handle(on_nack_received(
                    Observe(Cur, "Nack", session_id, fragment_index, nack_type),
                    NackPacket(session_id, NackRoute, fragment_index, nack_type),
                    now))

\* an Ack for a session this client never opened
RecvStrayAck ==
    /\ Ready
    /\ \E fragment_index \in 0..1 :
          Handle(on_ack_received(
                    Observe(Cur, "Ack", StraySession, fragment_index, [kind |-> "None", node |-> 0]),
                    AckPacket(StraySession, << 21, 2, ClientId >>, fragment_index)))

\* a Nack for a session this client never opened
RecvStrayNack ==
    /\ Ready
    /\ \E nack_type \in NackTypes :
          Handle(on_nack_received(
                    Observe(Cur, "Nack", StraySession, 0, nack_type),
                    NackPacket(StraySession, NackRoute, 0, nack_type),
                    now))

Traces ==
    {<< << ClientId, "Client" >>, << d, "Drone" >>, << 21, "Server" >> >> : d \in Drones}

FloodResponse(flood_id, path_trace, hops, hop_index) ==
    [Packet("FloodResponse", 12, hops, hop_index) EXCEPT
        !.flood_id = flood_id, !.path_trace = path_trace]

ObserveTrace(c, path_trace) ==
    [Begin(c, "FloodResponse") EXCEPT
        !.last.path_trace = path_trace,
        !.last.repeated = c.last.op = "FloodResponse" /\ c.last.path_trace = path_trace]

ObserveResponse(c, packet) ==
    [ObserveTrace(c, packet.path_trace) EXCEPT !.last.received = << packet >>]

\* the FloodResponse arrives and is handled
ReceiveFloodResponse(c, packet) == HandleFloodResponse(ObserveResponse(c, packet), packet)

\* the answer to a flood this client started
RecvFloodResponse ==
    /\ Ready
    /\ \E flood_id \in SeqToSet(sent_flood_ids), path_trace \in Traces :
          Handle(ReceiveFloodResponse(Cur,
                    FloodResponse(flood_id, path_trace,
                                  << 21, path_trace[2][1], ClientId >>, 2)))

\* the answer to a flood of server 22, on its way back through this client
ForeignTrace ==
    << << 3, "Drone" >>, << ClientId, "Client" >>, << 2, "Drone" >>, << 21, "Server" >> >>

RecvForeignFloodResponse ==
    /\ Ready
    /\ Handle(ReceiveFloodResponse(Cur,
                 FloodResponse(ForeignFlood, ForeignTrace, << 21, 2, ClientId, 3 >>, 2)))

RecvFloodRequest ==
    /\ Ready
    /\ \E sender_id \in Drones :
          LET path_trace == << << 21, "Server" >>, << sender_id, "Drone" >> >>
          IN Handle(on_flood_request_received(
                       [Begin(Cur, "FloodRequestIn") EXCEPT !.last.path_trace = path_trace],
                       FloodRequest(ForeignFlood, 21, path_trace, 12)))

Next ==
    \/ Run
    \/ Stop
    \/ Tick
    \/ CmdSendMessage
    \/ CmdFloodRequest
    \/ CmdAddSender
    \/ CmdRemoveSender
    \/ RecvFragment
    \/ RecvAck
    \/ RecvNack
    \/ RecvStrayAck
    \/ RecvStrayNack
    \/ RecvFloodResponse
    \/ RecvForeignFloodResponse
    \/ RecvFloodRequest

Spec == Init /\ [][Next]_vars

\* ------------------------------------------------------- the loop of run()
Command(kind, sender_id) ==
    [kind |-> kind, sender_id |-> sender_id, server_id |-> 0, file_id |-> 0]

\* a command about a server, or about a file of a server
Request(kind, server_id, file_id) ==
    [Command(kind, 0) EXCEPT !.server_id = server_id, !.file_id = file_id]

\* the loop of KnownServers: the type of every node of the given type is asked
RECURSIVE RequestServerTypes(_, _)
RequestServerTypes(c, servers) ==
    IF servers = << >> \/ c.panicked THEN c
    ELSE RequestServerTypes(send_server_type_request(c, Head(servers)), Tail(servers))

\* ChatClient::handle_controller_commands; Shutdown and the commands of the
\* browser fall into the last arm
handle_controller_commands(c, command, now_ms) ==
    CASE command.kind = "SendMessage" -> CommandSendMessage(c, command.server_id, 1)
      [] command.kind = "Register" -> register(c, command.server_id)
      [] command.kind = "ClientList" -> send_client_list_req(c, command.server_id)
      [] command.kind = "FloodRequest" -> send_flood_request(c, now_ms)
      [] command.kind = "Topology" ->
            SendToController(c, Message("TopologyResponse", 0, 0, c.topology, EmptyMap))
      [] command.kind = "RegisteredServers" ->
            SendToController(c, Message("RegisteredServersResponse", 0, 0,
                                        c.adapter.registered_servers, EmptyMap))
      [] command.kind = "KnownServers" ->
            LET c1 == RequestServerTypes(
                          c, Sorted({n \in DOMAIN c.topology.types :
                                        c.topology.types[n] = "Server"}))
            IN IF c1.panicked THEN c1
               ELSE SendToController(c1,
                        Message("KnownServers", 0, 0,
                                [n \in DOMAIN c.adapter.available_clients |-> "Chat"],
                                EmptyMap))
      [] command.kind = "AddSender" -> CommandAddSender(c, command.sender_id, now_ms)
      [] command.kind = "RemoveSender" -> CommandRemoveSender(c, command.sender_id)
      [] command.kind = "RequestServerType" ->
            send_server_type_request(c, command.server_id)
      [] OTHER -> c

\* the commands of the chat client that the browser has no arm for
ChatCommands == {"SendMessage", "Register", "ClientList", "RegisteredServers"}

\* a browser that handles the commands as the chat client does
BrowserClient_handle_controller_commands_as_chat(c, command, now_ms) ==
    handle_controller_commands(c, command, now_ms)

\* BrowserClient::handle_controller_commands; Shutdown ends the process and is
\* not a command of this model
BrowserClient_handle_controller_commands(c, command, now_ms) ==
    CASE command.kind = "RequestFileList" -> request_file_list(c, command.server_id)
      [] command.kind = "RequestTextFile" ->
            request_text_file(c, command.file_id, command.server_id)
      [] command.kind = "RequestMediaFile" ->
            request_media_file(c, command.file_id, command.server_id)
      [] command.kind = "FloodRequest" -> send_flood_request(c, now_ms)
      [] command.kind = "Topology" ->
            SendToController(c, Message("TopologyResponse", 0, 0, c.topology, EmptyMap))
      [] command.kind = "AddSender" ->
            send_flood_request(
                [c EXCEPT !.senders = @ \cup {command.sender_id},
                          !.topology = add_edge(set_node_type(add_node(@, command.sender_id),
                                                              command.sender_id, "drone"),
                                                ClientId, command.sender_id)],
                now_ms)
      [] command.kind = "RemoveSender" -> CommandRemoveSender(c, command.sender_id)
      [] command.kind = "KnownServers" ->
            LET c1 == RequestServerTypes(
                          c, Sorted({n \in DOMAIN c.topology.types :
                                        c.topology.types[n] = "server"}))
            IN IF c1.panicked THEN c1
               ELSE SendToController(c1,
                        Message("KnownServers", 0, 0, c.adapter.available_servers, EmptyMap))
      [] command.kind = "RequestServerType" ->
            send_server_type_request(c, command.server_id)
      [] command.kind \in ChatCommands -> c

\* what recv() returns on a channel that is closed and empty
RecvError == [type |-> "RecvError", kind |-> "RecvError"]

\* the error of recv() is logged
on_drone_packet_received(c, packet, now_ms) ==
    CASE packet.type = "RecvError" -> c
      [] packet.type = "MsgFragment" -> on_fragment_received(c, packet)
      [] packet.type = "FloodResponse" -> HandleFloodResponse(c, packet)
      [] packet.type = "Nack" -> on_nack_received(c, packet, now_ms)
      [] packet.type = "Ack" -> on_ack_received(c, packet)
      [] packet.type = "FloodRequest" -> on_flood_request_received(c, packet)

\* select_biased!: the first ready channel in the order written
select_packets_first(commands, packets) ==
    IF packets # << >> THEN "packet"
    ELSE IF commands # << >> THEN "command"
    ELSE "none"

select_biased(commands, packets) ==
    IF commands # << >> THEN "command"
    ELSE IF packets # << >> THEN "packet"
    ELSE "none"

LoopCommands ==
    {Command("FloodRequest", 0), Command("Shutdown", 0), Command("RemoveSender", 2)}

LoopPackets ==
    {AckPacket(StraySession, << 21, 2, ClientId >>, 0),
     Fragment(InSession, << 21, 2, ClientId >>, 0, 2),
     FloodRequest(ForeignFlood, 21, << << 21, "Server" >>, << 2, "Drone" >> >>, 12)}

\* the controller sends a command
SendCommand ==
    /\ "commands" \notin inbox.closed
    /\ Len(inbox.commands) < MaxQueue
    /\ \E command \in LoopCommands :
          inbox' = [inbox EXCEPT !.commands = Append(@, command)]
    /\ UNCHANGED << client_vars, phase, ticks, now, payload, fed, delivered >>

\* a neighbour sends a packet
ArrivePacket ==
    /\ "packets" \notin inbox.closed
    /\ Len(inbox.packets) < MaxQueue
    /\ \E packet \in LoopPackets :
          inbox' = [inbox EXCEPT !.packets = Append(@, packet)]
    /\ UNCHANGED << client_vars, phase, ticks, now, payload, fed, delivered >>

ObserveSelect(c, op) ==
    [Begin(c, op) EXCEPT !.last.packets_ready = Len(inbox.packets)]

\* one iteration of the loop: select, handle, ticks -= 1
Select ==
    /\ Ready
    /\ LET ready == select_biased(inbox.commands, inbox.packets)
       IN /\ ready # "none"
          /\ IF ready = "command"
             THEN /\ Commit(handle_controller_commands(
                                ObserveSelect(Cur, Head(inbox.commands).kind),
                                Head(inbox.commands), now))
                  /\ inbox' = [inbox EXCEPT !.commands = Tail(@)]
             ELSE /\ Commit(on_drone_packet_received(
                                ObserveSelect(Cur, "Packet"), Head(inbox.packets), now))
                  /\ inbox' = [inbox EXCEPT !.packets = Tail(@)]
    /\ ticks' = ticks - 1
    /\ UNCHANGED << phase, now, payload, fed, delivered >>

NextLoop ==
    \/ Run
    \/ Stop
    \/ SendCommand
    \/ ArrivePacket
    \/ Select

SpecLoop == Init /\ [][NextLoop]_vars

\* ------------------------------------------ the loop with channels that close
\* what a channel has for recv(): its queue, and the error once it is closed
\* and empty
Receivable(queue, closed) ==
    IF queue # << >> THEN queue
    ELSE IF closed THEN << RecvError >>
    ELSE << >>

\* an error of the command channel taken as the error of the packet channel
handle_sim_controller_packets_logged(c, packet, now_ms) ==
    IF packet.kind = "RecvError" THEN c
    ELSE handle_controller_commands(c, packet, now_ms)

handle_sim_controller_packets(c, packet, now_ms) ==
    IF packet.kind = "RecvError" THEN [c EXCEPT !.panicked = TRUE]
    ELSE handle_controller_commands(c, packet, now_ms)

\* the controller drops its end of the command channel
CloseCommands ==
    /\ "commands" \notin inbox.closed
    /\ inbox' = [inbox EXCEPT !.closed = @ \cup {"commands"}]
    /\ UNCHANGED << client_vars, phase, ticks, now, payload, fed, delivered >>

\* the last neighbour drops its end of the packet channel
ClosePackets ==
    /\ "packets" \notin inbox.closed
    /\ inbox' = [inbox EXCEPT !.closed = @ \cup {"packets"}]
    /\ UNCHANGED << client_vars, phase, ticks, now, payload, fed, delivered >>

\* one iteration of the loop: select, handle the message or the error,
\* ticks -= 1
Receive ==
    /\ Ready
    /\ LET commands == Receivable(inbox.commands, "commands" \in inbox.closed)
           packets == Receivable(inbox.packets, "packets" \in inbox.closed)
           ready == select_biased(commands, packets)
       IN /\ ready # "none"
          /\ IF ready = "command"
             THEN /\ Commit(handle_sim_controller_packets(
                                ObserveSelect(Cur, Head(commands).kind), Head(commands), now))
                  /\ inbox' = [inbox EXCEPT !.commands = IF @ = << >> THEN @ ELSE Tail(@)]
             ELSE /\ Commit(on_drone_packet_received(
                                ObserveSelect(Cur, IF Head(packets).type = "RecvError"
                                                   THEN "PacketError" ELSE "Packet"),
                                Head(packets), now))
                  /\ inbox' = [inbox EXCEPT !.packets = IF @ = << >> THEN @ ELSE Tail(@)]
    /\ ticks' = ticks - 1
    /\ UNCHANGED << phase, now, payload, fed, delivered >>

NextChannels ==
    \/ Run
    \/ Stop
    \/ SendCommand
    \/ ArrivePacket
    \/ CloseCommands
    \/ ClosePackets
    \/ Receive

SpecChannels == Init /\ [][NextChannels]_vars

\* ------------------------------------------------------------------ routing
\* the Topology of routing/mod.rs, built through its own operations
RouteNodes == {1, 2, 3, 4}

\* add_node: pushes the node and inserts an empty neighbour list for it
routing_add_node(t, node) ==
    [t EXCEPT !.nodes = @ \cup {node}, !.edges = Put(@, node, {})]

\* add_edge: unwraps the neighbour lists of both ends
routing_add_edge(t, from, to) ==
    [t EXCEPT !.edges = [x \in DOMAIN @ |->
        IF x = from /\ x = to THEN @[x] \cup {from, to}
        ELSE IF x = from THEN @[x] \cup {to}
        ELSE IF x = to THEN @[x] \cup {from}
        ELSE @[x]]]

GraphAddNode ==
    /\ ~panicked
    /\ \E node \in RouteNodes : topology' = routing_add_node(topology, node)
    /\ UNCHANGED << senders, sent_packets, acked_packets, packets_to_send,
                    sent_flood_ids, last_flood_timestamp, received_fragments,
                    next_session, panicked, emitted, events, hist, adapter,
                    phase, ticks, now, feed_vars >>

GraphAddEdge ==
    /\ ~panicked
    /\ \E from \in RouteNodes, to \in RouteNodes :
          IF {from, to} \subseteq DOMAIN topology.edges
          THEN topology' = routing_add_edge(topology, from, to) /\ panicked' = panicked
          ELSE topology' = topology /\ panicked' = TRUE
    /\ UNCHANGED << senders, sent_packets, acked_packets, packets_to_send,
                    sent_flood_ids, last_flood_timestamp, received_fragments,
                    next_session, emitted, events, hist, adapter,
                    phase, ticks, now, feed_vars >>

NextRoute ==
    \/ GraphAddNode
    \/ GraphAddEdge

SpecRoute == Init /\ [][NextRoute]_vars

\* ------------------------------------------------------------- reassembly
\* messages around the fragment boundaries, of three byte patterns
PayloadLengths ==
    {n \in 0..(MaxFragments * FRAGMENT_SIZE) :
        n <= 1 \/ n % FRAGMENT_SIZE \in {0, 1, FRAGMENT_SIZE - 1}}

Payloads == {[i \in 1..n |-> (k * i) % 256] : n \in PayloadLengths, k \in {0, 1, 7}}

InitReassemble ==
    /\ InitState
    /\ adapter = InitClient.adapter
    /\ payload \in Payloads
    /\ fed = << >>
    /\ delivered = << >>
    /\ inbox = [commands |-> << >>, packets |-> << >>, closed |-> {}]

\* one fragment of the message arrives, in any order, possibly again
Feed ==
    /\ Len(fed) <= Len(disassemble_message(payload))
    /\ \E fragment_index \in 0..(Len(disassemble_message(payload)) - 1) :
          LET added == add_fragment(Cur, disassemble_message(payload)[fragment_index + 1],
                                    InSession)
          IN /\ received_fragments' = added.state.received_fragments
             /\ fed' = Append(fed, fragment_index)
             /\ delivered' = IF added.complete THEN Append(delivered, added.message)
                             ELSE delivered
    /\ UNCHANGED << topology, senders, sent_packets, acked_packets, packets_to_send,
                    sent_flood_ids, last_flood_timestamp, next_session, panicked,
                    emitted, events, hist, adapter, phase, ticks, now, payload, inbox >>

NextReassemble == Feed

SpecReassemble == InitReassemble /\ [][NextReassemble]_vars

\* ------------------------------------------------- flood response ingestion
\* path traces of one to three entries; node 2 is reported as drone and as server
TraceEntries ==
    {<< ClientId, "Client" >>, << 2, "Drone" >>, << 2, "Server" >>, << 21, "Server" >>}

AnyTraces ==
    {<< a >> : a \in TraceEntries}
    \cup {<< a, b >> : a \in TraceEntries, b \in TraceEntries}
    \cup {<< a, b, d >> : a \in TraceEntries, b \in TraceEntries, d \in TraceEntries}

\* on_flood_response_received on any trace, for a flood of this client
RecvAnyFloodResponse ==
    /\ Ready
    /\ sent_flood_ids # << >>
    /\ \E path_trace \in AnyTraces :
          Handle(ReceiveFloodResponse(Cur,
                    FloodResponse(sent_flood_ids[1], path_trace, << 21, 2, ClientId >>, 2)))

NextIngest ==
    \/ Run
    \/ RecvAnyFloodResponse
    \/ RecvStrayNack
    \/ CmdAddSender
    \/ CmdRemoveSender

SpecIngest == Init /\ [][NextIngest]_vars

\* --------------------------------------------------------- the chat client
\* what the servers answer: a registration, a message of client 7, the type
\* of the server, bytes that are no response, a response for a browser
ChatContents ==
    {<< "Chat", "ClientRegistered" >>,
     << "Chat", "MessageFrom", "7", "h", "i" >>,
     << "ServerType", "Chat" >>,
     << "asd" >>,
     << "Chat", "TextFile", "1", "a" >>}

\* a response of one fragment
ResponseFragment(source_id, raw_content) ==
    [Fragment(InSession, << source_id, 2, ClientId >>, 0, 1) EXCEPT
        !.length = Len(raw_content), !.data = raw_content]

RecvResponse ==
    /\ Ready
    /\ adapter.client = "chat"
    /\ \E source_id \in Servers, raw_content \in ChatContents :
          Handle(on_fragment_received(Begin(Cur, "MsgFragment"),
                                      ResponseFragment(source_id, raw_content)))

ObserveCommand(c, command) ==
    [Begin(c, command.kind) EXCEPT !.last.command = << command >>]

\* commands of the chat client, and two commands of the browser
ChatLoopCommands ==
    {Request("Register", 21, 0), Command("RegisteredServers", 0),
     Request("RequestFileList", 21, 0), Request("RequestTextFile", 21, 1)}

ChatCommand ==
    /\ Ready
    /\ adapter.client = "chat"
    /\ \E command \in ChatLoopCommands :
          Handle(handle_controller_commands(ObserveCommand(Cur, command), command, now))

NextChat ==
    \/ Run
    \/ Stop
    \/ RecvFloodResponse
    \/ RecvResponse
    \/ ChatCommand

SpecChat == Init /\ [][NextChat]_vars

\* ------------------------------------------------------ the browser client
InitBrowser ==
    /\ InitState
    /\ adapter = NewBrowserAdapter
    /\ payload = << >>
    /\ fed = << >>
    /\ delivered = << >>
    /\ inbox = [commands |-> << >>, packets |-> << >>, closed |-> {}]

\* text 1 is "ref=5\na", text 2 is "ref=5,6\n", text 3 is "a"
TextContents ==
    {<< "Chat", "TextFile", "1", "r", "e", "f", "=", "5", "\n", "a" >>,
     << "Chat", "TextFile", "2", "r", "e", "f", "=", "5", ",", "6", "\n" >>,
     << "Chat", "TextFile", "3", "a" >>}

MediaContents ==
    {<< "Chat", "MediaFile", "5", "x" >>, << "Chat", "MediaFile", "6", "y" >>}

\* the text server 21 answers with texts, the media server 22 with its type
\* and with media; bytes that are no response arrive as well
BrowserResponses ==
    {<< 21, raw_content >> : raw_content \in TextContents}
    \cup {<< 22, raw_content >> : raw_content \in MediaContents}
    \cup {<< 22, << "ServerType", "Media" >> >>, << 21, << "asd" >> >>}

RecvBrowserResponse ==
    /\ Ready
    /\ adapter.client = "browser"
    /\ \E response \in BrowserResponses :
          Handle(on_fragment_received(Begin(Cur, "MsgFragment"),
                                      ResponseFragment(response[1], response[2])))

\* commands of the browser, and two commands of the chat client
BrowserLoopCommands ==
    {Request("RequestMediaFile", 22, 5),
     Request("Register", 21, 0), Request("ClientList", 21, 0)}

BrowserCommand ==
    /\ Ready
    /\ adapter.client = "browser"
    /\ \E command \in BrowserLoopCommands :
          Handle(BrowserClient_handle_controller_commands(ObserveCommand(Cur, command),
                                                          command, now))

NextBrowser ==
    \/ Run
    \/ Stop
    \/ RecvFloodResponse
    \/ RecvBrowserResponse
    \/ BrowserCommand

SpecBrowser == InitBrowser /\ [][NextBrowser]_vars

\* --------------------------------------------- the commands of either client
InitEither ==
    /\ InitState
    /\ adapter \in {NewChatAdapter, NewBrowserAdapter}
    /\ payload = << >>
    /\ fed = << >>
    /\ delivered = << >>
    /\ inbox = [commands |-> << >>, packets |-> << >>, closed |-> {}]

NextCommands ==
    \/ Run
    \/ Stop
    \/ RecvFloodResponse
    \/ ChatCommand
    \/ BrowserCommand

SpecCommands == InitEither /\ [][NextCommands]_vars

\* ------------------------------------------------------------------ claims
AllIndices(total) == 0..(total - 1)

QueuedAcks(key) ==
    Cardinality({d \in DOMAIN packets_to_send :
        /\ packets_to_send[d].type = "Ack"
        /\ << packets_to_send[d].session_id, packets_to_send[d].fragment_index >> = key})

\* C1: every handled MsgFragment has exactly one Ack with its session_id and
\* fragment_index: emitted once, or still waiting for a route in the queue
C1_OneAckPerFragment ==
    ~panicked =>
        \A key \in DOMAIN hist.frag_handled :
            Get(hist.acks_out, key, 0) + QueuedAcks(key) = hist.frag_handled[key]

\* C2: a session is retired only after an Ack for every fragment index has
\* been received (stated for the sessions whose fragments were all emitted,
\* where nothing but the Acks decides)
C2_RetiredOnlyWhenAllAcked ==
    \A s \in hist.retired :
        hist.frag_out[s] = AllIndices(hist.opened[s].total)
            => hist.acks_recv[s] = AllIndices(hist.opened[s].total)

\* C3: the handler of the Ack that completes the acknowledgment of a pending
\* session (every fragment index acknowledged) retires the session
C3_AllAckedIsRetired ==
    (/\ ~panicked
     /\ hist.last.op = "Ack"
     /\ hist.last.pending
     /\ Get(hist.acks_recv, hist.last.session_id, {}) = AllIndices(hist.last.total))
        => /\ hist.last.session_id \notin DOMAIN sent_packets
           /\ hist.last.session_id \notin DOMAIN acked_packets

\* C4: the handler of Nack(session_id, i) for a pending session re-sends the
\* MsgFragment i of that session to its original destination, on the route
\* computed from the topology of that moment
C4_NackResendsThatFragment ==
    (/\ ~panicked
     /\ hist.last.op = "Nack"
     /\ hist.last.pending)
        => /\ Len(hist.last.resent) = 1
           /\ LET r == hist.last.resent[1]
              IN /\ r.packet.type = "MsgFragment"
                 /\ r.packet.session_id = hist.last.session_id
                 /\ r.packet.fragment_index = hist.last.fragment_index
                 /\ r.to = hist.opened[hist.last.session_id].destination
                 /\ r.packet.hops = get_routing_header(topology, ClientId, r.to).hops

\* C5: after a FloodResponse is handled, every packet that was deferred and
\* not emitted since is still in the queue under a destination without a
\* route, and the handler emitted no packet twice
C5_DeferredEmittedOnce ==
    (~panicked /\ hist.last.op = "FloodResponse")
        => /\ \A x \in hist.deferred :
                \E d \in DOMAIN packets_to_send :
                    /\ Identity(packets_to_send[d]) = x
                    /\ get_routing_header(topology, ClientId, d).hops = << >>
           /\ \A i, j \in 1..Len(emitted) :
                i # j => Identity(emitted[i].packet) # Identity(emitted[j].packet)

OwnFloodRequests ==
    {i \in 1..Len(emitted) :
        emitted[i].packet.type = "FloodRequest" /\ emitted[i].packet.initiator_id = ClientId}

\* C6: a handler in which a send found no route leaves the packet in the queue
\* under its destination and, when the rate limit allows a flood, has sent one
\* FloodRequest to every neighbour
C6_NoRouteStoresAndFloods ==
    (~panicked /\ hist.last.noroute # << >>)
        => /\ \A i \in 1..Len(hist.last.noroute) :
                hist.last.noroute[i].to \in DOMAIN packets_to_send
           /\ hist.last.flood_permitted
                => {emitted[i].to : i \in OwnFloodRequests} = senders

\* C7: two floods of this client are never less than the timeout apart, and a
\* flood attempt inside the interval emits no FloodRequest, records no flood
\* id, leaves the timestamp alone and sends no FloodRequestSent event
C7_FloodRateLimit ==
    /\ \A i \in 2..Len(hist.flood_times) :
          hist.flood_times[i] - hist.flood_times[i - 1] >= TIMEOUT_BETWEEN_FLOODS_MS
    /\ Len(sent_flood_ids) = Len(hist.flood_times)
    /\ (hist.last.flood_attempted /\ ~hist.last.flood_permitted)
          => /\ OwnFloodRequests = {}
             /\ sent_flood_ids = hist.last.flood_ids_before
             /\ last_flood_timestamp = hist.last.timestamp_before
             /\ \A i \in 1..Len(events) : events[i] # "FloodRequestSent"
    /\ (hist.last.flood_attempted /\ hist.last.flood_permitted)
          => /\ {emitted[i].to : i \in OwnFloodRequests} = senders
             /\ Len(sent_flood_ids) = Len(hist.last.flood_ids_before) + 1

\* a second flood went out after the interval and a later attempt was refused
C7_Witness ==
    /\ Len(hist.flood_times) >= 2
    /\ hist.last.flood_attempted
    /\ ~hist.last.flood_permitted
    /\ hist.last.op \in {"FloodRequest", "AddSender", "Nack"}

\* C8: the second of two consecutive handlings of Ack(session_id, i) for a
\* session that was pending at the first changes neither the sent log nor the
\* ACK bitmaps
C8_AckIdempotent ==
    [][(/\ hist.last.op = "Ack"
        /\ hist.last.pending
        /\ hist'.last.op = "Ack"
        /\ ticks' = ticks - 1
        /\ hist'.last.session_id = hist.last.session_id
        /\ hist'.last.fragment_index = hist.last.fragment_index)
          => /\ sent_packets' = sent_packets
             /\ acked_packets' = acked_packets
             /\ panicked' = panicked]_vars

\* C9: the ACK bitmap of a pending session has total_fragments entries, and
\* entry i is true iff an Ack for fragment index i was received
C9_BitmapShape ==
    \A s \in DOMAIN acked_packets \cap DOMAIN sent_packets \cap DOMAIN hist.opened :
        /\ Len(acked_packets[s]) = hist.opened[s].total
        /\ \A i \in AllIndices(hist.opened[s].total) :
              i + 1 <= Len(acked_packets[s])
                 => (acked_packets[s][i + 1] <=> i \in Get(hist.acks_recv, s, {}))

C11_UnmatchedNackIgnored ==
    [][(/\ hist'.last.op = "Nack"
        /\ ticks' = ticks - 1
        /\ \/ hist'.last.session_id \notin DOMAIN sent_packets
           \/ hist'.last.fragment_index >= Len(sent_packets[hist'.last.session_id]))
          => /\ topology' = topology
             /\ sent_flood_ids' = sent_flood_ids
             /\ last_flood_timestamp' = last_flood_timestamp
             /\ sent_packets' = sent_packets
             /\ acked_packets' = acked_packets
             /\ packets_to_send' = packets_to_send
             /\ emitted' = << >>]_vars

\* C12: an Ack whose session is not pending changes neither the sent log nor
\* the map of ACK bitmaps, and the client keeps running
C12_StrayAckIgnored ==
    [][(/\ hist'.last.op = "Ack"
        /\ ticks' = ticks - 1
        /\ hist'.last.session_id \notin DOMAIN sent_packets)
          => /\ sent_packets' = sent_packets
             /\ acked_packets' = acked_packets
             /\ ~panicked']_vars

EdgesSymmetric ==
    \A a \in DOMAIN topology.edges : \A b \in topology.edges[a] :
        b \in DOMAIN topology.edges /\ a \in topology.edges[b]

\* C13 as stated: the neighbour relation is symmetric and every node that
\* appears in a neighbour set is in the node set
C13_SymmetricAndClosed ==
    /\ EdgesSymmetric
    /\ \A a \in DOMAIN topology.edges : topology.edges[a] \subseteq topology.nodes

\* C13 amended: the neighbour relation is symmetric and every node that
\* appears in a neighbour set, other than the client itself, is in the node set
C13_SymmetricAndClosedButSelf ==
    /\ EdgesSymmetric
    /\ \A a \in DOMAIN topology.edges :
          topology.edges[a] \ {ClientId} \subseteq topology.nodes

\* a neighbour was added after a flood was ingested and a crashed drone removed
C13_Witness ==
    /\ hist.last.op = "AddSender"
    /\ 21 \in topology.nodes
    /\ ~(Drones \subseteq topology.nodes)
    /\ ClientId \in DOMAIN topology.edges
    /\ topology.edges[ClientId] # {}

\* C14: handling a FloodResponse with the path_trace of the FloodResponse
\* handled just before leaves node set, node kinds and edges as they were
C14_IngestTwice ==
    [][(/\ hist.last.op = "FloodResponse"
        /\ hist'.last.op = "FloodResponse"
        /\ ticks' = ticks - 1
        /\ hist'.last.path_trace = hist.last.path_trace)
          => /\ topology'.nodes = topology.nodes
             /\ topology'.types = topology.types
             /\ topology'.edges = topology.edges]_vars

\* a three-entry trace that ends at server 21 was ingested twice in a row
C14_Witness ==
    /\ hist.last.op = "FloodResponse"
    /\ hist.last.repeated
    /\ ~panicked
    /\ Len(hist.last.path_trace) = 3
    /\ hist.last.path_trace[3] = << 21, "Server" >>
    /\ hist.last.path_trace[2][1] # 21
    /\ get_routing_header(topology, ClientId, 21).hops # << >>

\* the fragment indexes of session s in a handler's output, in emission order
EmittedIndexes(out, s) ==
    LET IsFragment(e) == e.packet.type = "MsgFragment" /\ e.packet.session_id = s
        fragments == SelectSeq(out, IsFragment)
    IN [i \in 1..Len(fragments) |-> fragments[i].packet.fragment_index]

\* C15: the handler that emits the first fragment of an outbound session
\* emits the fragments 0, 1, ..., total - 1 of that session, in this order
C15_FragmentsInOrder ==
    [][\A s \in DOMAIN hist'.opened :
          (/\ ~panicked'
           /\ s \notin DOMAIN hist.frag_out
           /\ EmittedIndexes(emitted', s) # << >>)
             => EmittedIndexes(emitted', s)
                   = [i \in 1..hist'.opened[s].total |-> i - 1]]_vars

FedOnce == Cardinality(SeqToSet(fed)) = Len(fed)

\* C16: when every fragment of a message is fed once, in any order, the
\* reassembler returns nothing before the last fragment and the message itself
\* on the last fragment
C16_RoundTrip ==
    FedOnce =>
        IF Len(fed) = Len(disassemble_message(payload))
        THEN delivered = << payload >>
        ELSE delivered = << >>

\* a message that ends inside its second fragment came back from fragments
\* fed last first
C16_Witness ==
    /\ Len(payload) > FRAGMENT_SIZE
    /\ Len(payload) % FRAGMENT_SIZE # 0
    /\ payload[1] # 0
    /\ fed = << 1, 0 >>
    /\ delivered = << payload >>

\* C17: the reassembler returns a message only when every fragment index of
\* the session was received, and what it returns first is the message
C17_DuplicatesTolerated ==
    /\ Cardinality(SeqToSet(fed)) < Len(disassemble_message(payload)) => delivered = << >>
    /\ delivered # << >> => delivered[1] = payload

CommandKinds == {command.kind : command \in LoopCommands}

\* C18: an iteration of the loop that finds a command and a packet ready
\* handles the command and leaves the packet waiting; every iteration handles
\* one input to the end
C18_CommandsFirst ==
    [][(ticks' = ticks - 1)
          => /\ Len(inbox'.commands) + Len(inbox'.packets)
                   = Len(inbox.commands) + Len(inbox.packets) - 1
             /\ (inbox.commands # << >> /\ inbox.packets # << >>)
                   => /\ inbox'.commands = Tail(inbox.commands)
                      /\ inbox'.packets = inbox.packets
                      /\ hist'.last.op = Head(inbox.commands).kind]_vars

\* a command was handled while two packets were waiting
C18_Witness ==
    /\ hist.last.op \in CommandKinds
    /\ hist.last.packets_ready = 2
    /\ Len(inbox.packets) = 2

\* C19: once the Shutdown command is handled the loop handles no further
\* input and nothing more is emitted
C19_ShutdownStopsLoop ==
    [][hist.last.op = "Shutdown"
          => /\ ticks' = ticks
             /\ emitted' = emitted
             /\ events' = events]_vars

\* the nodes at most k neighbour steps away from the nodes of S
RECURSIVE Within(_, _)
Within(S, k) ==
    IF k = 0 THEN S
    ELSE LET near == Within(S, k - 1)
         IN near \cup UNION {topology.edges[a] : a \in near \cap DOMAIN topology.edges}

Distance(a, b) == MinOf({k \in 0..Cardinality(RouteNodes) : b \in Within({a}, k)})

IsPath(hops, a, b) ==
    /\ hops[1] = a
    /\ hops[Len(hops)] = b
    /\ Cardinality(SeqToSet(hops)) = Len(hops)
    /\ \A i \in 1..(Len(hops) - 1) :
          hops[i] \in DOMAIN topology.edges /\ hops[i + 1] \in topology.edges[hops[i]]

\* C20: compute_route returns the empty sequence iff the destination cannot
\* be reached from the source, and otherwise a path from source to destination
\* along edges, without a repeated node, of the least number of hops
C20_ShortestRoute ==
    ~panicked =>
        \A a \in RouteNodes, b \in RouteNodes :
            LET route == compute_route(topology, a, b)
                reachable == b \in Within({a}, Cardinality(RouteNodes))
            IN /\ ~route.panicked
               /\ route.hops = << >> <=> ~reachable
               /\ reachable => /\ IsPath(route.hops, a, b)
                               /\ Len(route.hops) = Distance(a, b) + 1

\* C21: every node strictly between the first and the last hop of a route the
\* client computes has the kind drone in the topology
C21_IntermediatesAreDrones ==
    ~panicked =>
        \A destination_id \in topology.nodes :
            LET hops == get_routing_header(topology, ClientId, destination_id).hops
            IN \A i \in 2..(Len(hops) - 1) :
                  Get(topology.types, hops[i], "none") = "drone"

FragmentsOut == {i \in 1..Len(emitted) : emitted[i].packet.type = "MsgFragment"}

DroppedCount(t, n) == Get(t.history, n, [forwarded |-> 0, dropped |-> 0]).dropped

\* C23: the handler of a Nack Dropped adds one to the dropped counter of the
\* drone the Nack comes from and of no other node, leaves nodes and edges of
\* the topology alone and starts no flood
C23_DroppedCountsTheDrone ==
    [][(/\ hist'.last.op = "Nack"
        /\ ticks' = ticks - 1
        /\ hist'.last.nack_type.kind = "Dropped")
          => /\ \A n \in DOMAIN topology'.history :
                   DroppedCount(topology', n)
                      = DroppedCount(topology, n) + (IF n = NackRoute[1] THEN 1 ELSE 0)
             /\ NackRoute[1] \in DOMAIN topology'.history
             /\ topology'.nodes = topology.nodes
             /\ topology'.edges = topology.edges
             /\ sent_flood_ids' = sent_flood_ids
             /\ last_flood_timestamp' = last_flood_timestamp
             /\ \A i \in 1..Len(emitted') : emitted'[i].packet.type # "FloodRequest"]_vars

KindName(kind) ==
    CASE kind = "Drone" -> "drone"
      [] kind = "Client" -> "client"
      [] OTHER -> "server"

\* C24: after a FloodResponse is handled every node of its path_trace is in
\* the topology, every two consecutive nodes of it are neighbours of each
\* other, and every node it tags Drone or Client has that kind in the topology
C24_TraceIngested ==
    (~panicked /\ hist.last.op = "FloodResponse")
        => LET path_trace == hist.last.path_trace
           IN \A i \in 1..Len(path_trace) :
                 LET id == path_trace[i][1]
                     kind == path_trace[i][2]
                 IN /\ id \in topology.nodes
                    /\ i > 1 => /\ path_trace[i - 1][1] \in neighbors(topology, id)
                                /\ id \in neighbors(topology, path_trace[i - 1][1])
                    /\ kind \in {"Drone", "Client"}
                          => Get(topology.types, id, "none") = KindName(kind)

\* the sessions a handler step opened towards a destination
OpenedTo(before, after, destination_id) ==
    {s \in DOMAIN after \ DOMAIN before : after[s].destination = destination_id}

\* every node of the trace carries one kind
OneKindEach(path_trace) ==
    \A i, j \in 1..Len(path_trace) :
        path_trace[i][1] = path_trace[j][1] => path_trace[i][2] = path_trace[j][2]

\* C25: handling a FloodResponse opens exactly one ServerType request towards
\* every node its path_trace tags Server and whose kind the topology did not
\* record, and none towards a server whose kind was recorded
C25_OneQueryPerNewServer ==
    [][(/\ hist'.last.op = "FloodResponse"
        /\ ticks' = ticks - 1
        /\ ~panicked'
        /\ OneKindEach(hist'.last.path_trace))
          => \A i \in 1..Len(hist'.last.path_trace) :
                LET id == hist'.last.path_trace[i][1]
                    queries == OpenedTo(hist.opened, hist'.opened, id)
                IN hist'.last.path_trace[i][2] = "Server"
                      => IF id \in DOMAIN topology.types
                         THEN queries = {}
                         ELSE Cardinality(queries) = 1]_vars

\* C26: the handler of a FloodRequest that came from neighbour n never fails;
\* with exactly one neighbour it emits one FloodResponse to n and nothing
\* else, otherwise one FloodRequest to every neighbour but n; what it emits
\* carries the path_trace with (self, Client) appended once
C26_FloodRequestHandled ==
    hist.last.op = "FloodRequestIn"
        => LET path_trace == hist.last.path_trace
               n == path_trace[Len(path_trace)][1]
           IN /\ ~panicked
              /\ \A i \in 1..Len(emitted) :
                    emitted[i].packet.path_trace = Append(path_trace, << ClientId, "Client" >>)
              /\ IF Cardinality(senders) = 1
                 THEN /\ Len(emitted) = 1
                      /\ emitted[1].to = n
                      /\ emitted[1].packet.type = "FloodResponse"
                 ELSE /\ \A i \in 1..Len(emitted) : emitted[i].packet.type = "FloodRequest"
                      /\ {emitted[i].to : i \in 1..Len(emitted)} = senders \ {n}
                      /\ Len(emitted) = Cardinality(senders \ {n})

ResponsesOut == {i \in 1..Len(emitted) : emitted[i].packet.type = "FloodResponse"}

C28_DeliveredOnce ==
    /\ Len(delivered) <= 1
    /\ delivered # << >> => InSession \notin DOMAIN received_fragments

\* C29: when a handler that changes the topology has ended, no packet waits in
\* the queue under a destination the topology has a route to
C29_QueueDrained ==
    (/\ ~panicked
     /\ hist.last.op \in {"FloodResponse", "AddSender", "RemoveSender", "Nack"})
        => \A destination_id \in DOMAIN packets_to_send :
              get_routing_header(topology, ClientId, destination_id).hops = << >>

\* C30: the sent log of a pending session of this client never holds more
\* packets than the session has fragments
C30_SentLogBounded ==
    \A s \in DOMAIN sent_packets \cap DOMAIN hist.opened :
        Len(sent_packets[s]) <= hist.opened[s].total

\* the adapter's own fields, without the messages of the current handler
AdapterState(a) == [a EXCEPT !.messages = << >>]

\* the handler acknowledged the session to the node: the Ack was emitted, or
\* waits in the queue for a route
Acknowledged(sent, queue, source_id, session_id) ==
    \/ \E i \in 1..Len(sent) :
          sent[i].packet.type = "Ack" /\ sent[i].packet.session_id = session_id
    \/ /\ source_id \in DOMAIN queue
       /\ queue[source_id].type = "Ack"
       /\ queue[source_id].session_id = session_id

ClientState ==
    << topology, senders, sent_packets, acked_packets, packets_to_send, sent_flood_ids,
       last_flood_timestamp, received_fragments, next_session, panicked,
       AdapterState(adapter) >>

BrowserCommands == {"RequestFileList", "RequestTextFile", "RequestMediaFile"}

\* C33: a command that does not apply to the kind of client (a command of
\* the browser sent to a chat client, a command of the chat client sent to a
\* browser) is ignored: the transport state, the topology and the adapter's
\* state are left as they were, no packet is emitted, nothing is sent to the
\* controller
C33_InapplicableCommandIgnored ==
    [][(/\ ticks' = ticks - 1
        /\ hist'.last.command # << >>
        /\ \/ adapter.client = "chat" /\ hist'.last.command[1].kind \in BrowserCommands
           \/ adapter.client = "browser" /\ hist'.last.command[1].kind \in ChatCommands)
          => /\ ClientState' = ClientState
             /\ emitted' = << >>
             /\ events' = << >>
             /\ adapter'.messages = << >>]_vars

\* a browser that knows a route to server 21 was told to register to it
C33_Witness ==
    /\ adapter.client = "browser"
    /\ hist.last.command = << Request("Register", 21, 0) >>
    /\ compute_route(topology, ClientId, 21).hops # << >>
    /\ ~panicked

\* the first line of a text
FirstLine(text) == IF text = << >> THEN << >> ELSE Split(text, "\n")[1]

HasReferences(text) == StartsWith(FirstLine(text), << "r", "e", "f", "=" >>)

\* the media ids that the first line of the text names
ReferencedIds(text) ==
    IF ~HasReferences(text) THEN {}
    ELSE LET names == Split(Split(FirstLine(text), "=")[2], ",")
         IN {ParseU8(names[i]).value : i \in {j \in 1..Len(names) : ParseU8(names[j]).ok}}

\* the messages of a kind that the last handler sent to the controller
Told(kind) == {i \in 1..Len(adapter.messages) : adapter.messages[i].kind = kind}

\* C34: a text whose first line names media is sent to the controller only
\* when every named media is in the cache, then once, as TextWithReferences
\* with every named id attached, and the media that completed it is not sent
\* on its own; every such text that was received has been sent once its media
\* are all in the cache
C34_ReferencedTextDelivered ==
    adapter.client = "browser" =>
        /\ \A i \in Told("TextWithReferences") :
              LET message == adapter.messages[i]
              IN /\ ReferencedIds(message.content) \subseteq DOMAIN adapter.obtained_media_files
                 /\ ReferencedIds(message.content) \subseteq DOMAIN message.attached
                 /\ \A j \in Told("TextWithReferences") :
                       adapter.messages[j].file_id = message.file_id => j = i
                 /\ Told("MediaFileResponse") = {}
        /\ \A k \in DOMAIN adapter.obtained_text_files :
              LET text == adapter.obtained_text_files[k]
              IN (/\ HasReferences(text)
                  /\ ReferencedIds(text) # {}
                  /\ ReferencedIds(text) \subseteq DOMAIN adapter.obtained_media_files)
                    => Get(hist.texts_sent, k[2], 0) >= 1

\* the text of the TextFile response that the last handler received
ArrivedText(last) ==
    IF /\ last.arrived
       /\ ~last.undeserialized
       /\ Len(last.raw_content) >= 3
       /\ last.raw_content[2] = "TextFile"
    THEN SubSeq(last.raw_content, 4, Len(last.raw_content))
    ELSE << >>

\* C35: when a text that names media arrives and every named media is in the
\* cache, the handler requests no media and sends exactly one
\* TextWithReferences, whose attachments are the named ids with their cached
\* bytes; media are requested only for the ids that are not in the cache
C35_CachedReferencesDeliveredAtOnce ==
    [][(/\ ticks' = ticks - 1
        /\ adapter.client = "browser"
        /\ HasReferences(ArrivedText(hist'.last)))
          => LET text == ArrivedText(hist'.last)
                 file_id == ParseU8(<< hist'.last.raw_content[3] >>).value
                 cache == adapter.obtained_media_files
                 sent == {i \in 1..Len(adapter'.messages) :
                             adapter'.messages[i].kind = "TextWithReferences"}
             IN /\ \A i \in 1..Len(hist'.last.media_requests) :
                      hist'.last.media_requests[i] \notin DOMAIN cache
                /\ (ReferencedIds(text) # {} /\ ReferencedIds(text) \subseteq DOMAIN cache)
                      => /\ hist'.last.media_requests = << >>
                         /\ Cardinality(sent) = 1
                         /\ \A i \in sent :
                               /\ adapter'.messages[i].file_id = file_id
                               /\ adapter'.messages[i].content = text
                               /\ adapter'.messages[i].attached
                                     = [id \in ReferencedIds(text) |-> cache[id]]]_vars

\* the last handler received ClientRegistered
Registered(last) ==
    last.arrived /\ ~last.undeserialized /\ last.raw_content = << "Chat", "ClientRegistered" >>

\* C36: the registered servers of the chat client are a set: the handler of
\* ClientRegistered from s puts s into it, no other handler (Register among
\* them) changes its members, and no server is in it more than once
C36_RegisteredServersIsASet ==
    [][(adapter.client = "chat" /\ ticks' = ticks - 1)
          => /\ Registered(hist'.last)
                   => SeqToSet(adapter'.registered_servers)
                         = SeqToSet(adapter.registered_servers) \cup {hist'.last.source_id}
             /\ ~Registered(hist'.last)
                   => adapter'.registered_servers = adapter.registered_servers
             /\ Cardinality(SeqToSet(adapter'.registered_servers))
                   = Len(adapter'.registered_servers)]_vars

\* C37: the mutators of the topology are idempotent: add_node of a node that
\* is present changes nothing (the node is there once, its edges are kept),
\* add_edge of an edge that is present changes nothing, and the first
\* add_edge makes each end a neighbour of the other
C37_MutatorsIdempotent ==
    /\ \A node \in topology.nodes : routing_add_node(topology, node) = topology
    /\ \A from \in DOMAIN topology.edges, to \in DOMAIN topology.edges :
          /\ to \in topology.edges[from] /\ from \in topology.edges[to]
                => routing_add_edge(topology, from, to) = topology
          /\ to \in routing_add_edge(topology, from, to).edges[from]
          /\ from \in routing_add_edge(topology, from, to).edges[to]

\* the step takes an input of the loop: it changes the client, takes a
\* message from a channel or spends a tick
TakesInput ==
    \/ client_vars' # client_vars
    \/ Len(inbox'.commands) < Len(inbox.commands)
    \/ Len(inbox'.packets) < Len(inbox.packets)
    \/ ticks' # ticks

C39_LogsAndBitmapsAgree ==
    ~panicked => DOMAIN sent_packets = DOMAIN acked_packets

\* C40: every packet goes to a node that the client has a channel to, and
\* send_packet never reaches its fatal arm for a next hop without a channel
C40_NoSenderUnreachable ==
    /\ \A i \in 1..Len(emitted) : emitted[i].to \in senders
    /\ hist.last.no_sender = << >>

====
